---------------------------- MODULE Spec2Model ----------------------------
(***************************************************************************)
(* EngageVision-AI: the video-analysis pipeline of engagement/ai_engine.py *)
(* (EngagementAnalyzer, process_video, simulate_processing), the           *)
(* EngagementRecord / VideoUpload rows of engagement/models.py and the     *)
(* background task process_video_async of engagement/views.py.             *)
(*                                                                         *)
(* One behaviour of the model is one call of one entry point:              *)
(*   entry = "process_video"  process_video(path, id, save_interval)       *)
(*   entry = "async"          process_video_async(id, path)                *)
(*   entry = "simulate"       simulate_processing(id)                      *)
(* The inputs (the video source, save_interval, whether OpenCV and the     *)
(* Haar cascade file are there) are drawn in Init; the content of each     *)
(* frame is drawn when the frame is read.  Every entry point lives in or   *)
(* imports engagement/ai_engine.py, so a behaviour starts with the import  *)
(* of that module.                                                         *)
(*                                                                         *)
(* Two further specifications call methods of EngagementAnalyzer directly: *)
(*   ClassifySpec   classify_behavior on one face region                   *)
(*   AnalyzerSpec   process_frame, reset_interval_stats and the two        *)
(*                  snapshot methods in any order                          *)
(***************************************************************************)
EXTENDS Integers, Sequences, FiniteSets, TLC

VARIABLES
    entry,            \* the entry point that is called
    cv2_installed,    \* whether "import cv2" succeeds (the package is there)
    cascade_file,     \* whether the Haar cascade xml exists on disk
    source,           \* the video behind video_path
    save_interval,    \* process_video's save_interval argument
    video,            \* the VideoUpload row
    apc,              \* position of process_video_async
    pc,               \* position of process_video / simulate_processing
    analyzer,         \* the EngagementAnalyzer of the run, or NoAnalyzer
    cap,              \* the cv2.VideoCapture handle
    pos,              \* frames the capture has delivered so far
    records,          \* EngagementRecord rows saved by process_video, in order
    records_created,  \* the local counter of process_video / simulate_processing
    result,           \* the summary dict returned, or NoResult
    sim,              \* simulate_processing's locals: num_records and i
    sim_last,         \* the row simulate_processing saved last, or NoRecord
    face_region,      \* the argument of a direct call of classify_behavior
    behavior,         \* what that call returned, or "pending"
    frame,            \* the argument of the last direct call of process_frame
    frame_result,     \* what that call returned, or NoFrameResult
    snapshot,         \* what direct calls of get_current_stats and
                      \* get_cumulative_stats returned since the analyzer
                      \* was last written to
    status_seen       \* the last response of get_processing_status

vars == << entry, cv2_installed, cascade_file, source, save_interval, video,
           apc, pc, analyzer, cap, pos, records, records_created, result,
           sim, sim_last, face_region, behavior, frame, frame_result,
           snapshot, status_seen >>

---------------------------------------------------------------------------
(* Bounds of the model. *)

\* frames of a freely chosen source
MaxFrames == 3
\* faces the detector reports in one frame of a freely chosen source
MaxFaces == 1
\* save_interval values 1..MaxInterval are tried besides the default
MaxInterval == 3
\* widths 0..MaxWidth of the regions classify_behavior is called on directly
MaxWidth == 20
\* direct calls of process_frame on one analyzer
MaxCalls == 2

---------------------------------------------------------------------------
(* Program constants. *)

\* save_interval default, and the value process_video_async passes
DefaultSaveInterval == 30
\* models.py: null=True columns of VideoUpload hold NULL until set
NULL == -1

Labels == {"Attentive", "Sleepy", "Distracted", "Neutral"}

---------------------------------------------------------------------------
(* Arithmetic helpers. *)

\* The greatest common divisor (Euclid).
RECURSIVE GCD(_, _)
GCD(a, b) == IF b = 0 THEN a ELSE GCD(b, a % b)

\* The value n/d, d > 0, as a fraction in lowest terms.
\* engagement_percentage is a float computed as attentive / total * 100; the
\* model keeps the exact quotient, which determines that float.
Frac(n, d) ==
    LET g == GCD(n, d) IN [num |-> n \div g, den |-> d \div g]

\* The float 0.0 (and the int 0 of get_current_stats, which compares equal).
Zero == [num |-> 0, den |-> 1]

---------------------------------------------------------------------------
(* Face regions and frames.                                                *)
(* A face region is described by what classify_behavior reads of it: its   *)
(* width and height (shape), the mean and the standard deviation of its    *)
(* pixels.  A frame is described by the face regions detectMultiScale      *)
(* finds in it; isNone is the frame "None".  raises tells whether a        *)
(* statement of classify_behavior's try block (shape, np.mean, np.std)     *)
(* raises on the region.                                                   *)

Region(b, c, w, h) ==
    [ isNone |-> FALSE, raises |-> FALSE,
      brightness |-> b, contrast |-> c, w |-> w, h |-> h ]

\* face_region = None
NoneRegion == [isNone |-> TRUE]

\* A region on which a statement of the try block raises.
Raising(region) == [region EXCEPT !.raises = TRUE]

\* One region for each label, and an empty one (zero area).
SleepyRegion     == Region(50, 10, 40, 40)
DistractedRegion == Region(110, 50, 80, 40)
AttentiveRegion  == Region(110, 50, 40, 40)
NeutralRegion    == Region(90, 35, 40, 40)
EmptyRegion      == Region(0, 0, 0, 40)

Regions == {SleepyRegion, DistractedRegion, AttentiveRegion, NeutralRegion,
            EmptyRegion}

\* All sequences over S of length at most n.
RECURSIVE SeqsUpTo(_, _)
SeqsUpTo(S, n) ==
    IF n = 0 THEN {<< >>}
    ELSE LET shorter == SeqsUpTo(S, n - 1)
         IN  shorter \cup {Append(s, x) : s \in shorter, x \in S}

Frame(faces) == [isNone |-> FALSE, faces |-> faces]
NoneFrame    == [isNone |-> TRUE, faces |-> << >>]

---------------------------------------------------------------------------
(* EngagementAnalyzer.                                                     *)

NoAnalyzer == [created |-> FALSE]

\* _load_face_cascade: the classifier when OpenCV and the xml file are
\* there, None otherwise.
load_face_cascade(cv2ok, fileok) ==
    IF ~cv2ok THEN "None"
    ELSE IF fileok THEN "CascadeClassifier" ELSE "None"

\* EngagementAnalyzer.__init__
EngagementAnalyzer(interval, cv2ok, fileok) ==
    [ created              |-> TRUE,
      save_interval        |-> interval,
      face_cascade         |-> load_face_cascade(cv2ok, fileok),
      frame_count          |-> 0,
      total_faces_detected |-> 0,
      attentive_count      |-> 0,
      sleepy_count         |-> 0,
      distracted_count     |-> 0,
      neutral_count        |-> 0,
      cumulative_stats     |-> [attentive |-> 0, sleepy |-> 0,
                                distracted |-> 0, neutral |-> 0] ]

\* aspect_ratio = w / h compared with the decimal n/10: w/h < n/10 and
\* w/h > n/10, for h > 0, without rounding.
RatioBelow(w, h, n) == 10 * w < n * h
RatioAbove(w, h, n) == 10 * w > n * h

\* The rules with an Attentive band that includes its ends 0.7 and 1.3.
Heuristic_inclusive(region) ==
    IF region.brightness < 80 /\ region.contrast < 30
         THEN "Sleepy"
    ELSE IF \/ RatioBelow(region.w, region.h, 6)
            \/ RatioAbove(region.w, region.h, 14)
         THEN "Distracted"
    ELSE IF /\ region.brightness > 100
            /\ region.contrast > 40
            /\ ~RatioBelow(region.w, region.h, 7)
            /\ ~RatioAbove(region.w, region.h, 13)
         THEN "Attentive"
    ELSE "Neutral"

\* The rules of classify_behavior's try block, for a region of non-zero
\* area on which nothing raises.
Heuristic(region) ==
    IF region.brightness < 80 /\ region.contrast < 30
         THEN "Sleepy"
    ELSE IF \/ RatioBelow(region.w, region.h, 6)
            \/ RatioAbove(region.w, region.h, 14)
         THEN "Distracted"
    ELSE IF /\ region.brightness > 100
            /\ region.contrast > 40
            /\ RatioAbove(region.w, region.h, 7)
            /\ RatioBelow(region.w, region.h, 13)
         THEN "Attentive"
    ELSE "Neutral"

\* classify_behavior with the aspect-ratio rule tried before the Sleepy rule.
classify_behavior_ratio_first(region) ==
    IF region.isNone THEN "Neutral"
    ELSE IF region.w * region.h = 0 THEN "Neutral"
    ELSE IF region.raises THEN "Neutral"
    ELSE IF \/ RatioBelow(region.w, region.h, 6)
            \/ RatioAbove(region.w, region.h, 14)
         THEN "Distracted"
    ELSE Heuristic(region)

\* classify_behavior without its try/except: the exception leaves the method.
classify_behavior_no_except(region) ==
    IF region.isNone THEN "Neutral"
    ELSE IF region.w * region.h = 0 THEN "Neutral"
    ELSE IF region.raises THEN "raise"
    ELSE Heuristic(region)

\* classify_behavior: the label returned ("raise" would stand for an
\* exception leaving the method).  The h == 0 or w == 0 test inside the try
\* block repeats the size == 0 test; an exception in the try block is caught
\* and gives Neutral.
classify_behavior(region) ==
    IF region.isNone THEN "Neutral"
    ELSE IF region.w * region.h = 0 THEN "Neutral"
    ELSE IF region.raises THEN "Neutral"
    ELSE IF region.h = 0 \/ region.w = 0 THEN "Neutral"
    ELSE Heuristic(region)

\* A detector that is consulted even when the cascade was not loaded.
DetectedFaces_always(an, fr) == fr.faces

\* The faces process_frame iterates over: detectMultiScale's result when the
\* cascade is loaded, the empty list otherwise.
DetectedFaces(an, fr) ==
    IF an.face_cascade = "None" THEN << >> ELSE fr.faces

\* How many of the faces are classified as label.
CountLabel(faces, label) ==
    Cardinality({i \in DOMAIN faces : classify_behavior(faces[i]) = label})

\* The per-frame counts of process_frame's loop over the faces; the final
\* else branch counts every label that is none of the first three.
FrameCounts(faces) ==
    [ attentive  |-> CountLabel(faces, "Attentive"),
      sleepy     |-> CountLabel(faces, "Sleepy"),
      distracted |-> CountLabel(faces, "Distracted"),
      neutral    |-> Cardinality({i \in DOMAIN faces :
                        classify_behavior(faces[i]) \notin
                            {"Attentive", "Sleepy", "Distracted"}}) ]

\* The value process_frame returns first: len(faces), 0 for a None frame.
faces_detected(an, fr) ==
    IF fr.isNone THEN 0 ELSE Len(DetectedFaces(an, fr))

\* The tuple process_frame returns: (0, {}) for a None frame, else
\* (len(faces), the per-frame counts).
NoFrameResult == [returned |-> FALSE]
process_frame_result(an, fr) ==
    [ returned       |-> TRUE,
      faces_detected |-> faces_detected(an, fr),
      counts         |-> IF fr.isNone THEN << >>
                         ELSE FrameCounts(DetectedFaces(an, fr)) ]

\* process_frame that updates the interval counters only.
process_frame_interval_only(an, fr) ==
    IF fr.isNone THEN an
    ELSE LET fc == FrameCounts(DetectedFaces(an, fr))
         IN  [an EXCEPT
                !.attentive_count  = @ + fc.attentive,
                !.sleepy_count     = @ + fc.sleepy,
                !.distracted_count = @ + fc.distracted,
                !.neutral_count    = @ + fc.neutral]

\* process_frame's effect on the analyzer.
process_frame(an, fr) ==
    IF fr.isNone THEN an
    ELSE LET fc == FrameCounts(DetectedFaces(an, fr))
         IN  [an EXCEPT
                !.attentive_count  = @ + fc.attentive,
                !.sleepy_count     = @ + fc.sleepy,
                !.distracted_count = @ + fc.distracted,
                !.neutral_count    = @ + fc.neutral,
                !.cumulative_stats =
                    [ attentive  |-> @.attentive + fc.attentive,
                      sleepy     |-> @.sleepy + fc.sleepy,
                      distracted |-> @.distracted + fc.distracted,
                      neutral    |-> @.neutral + fc.neutral ] ]

\* A snapshot whose total leaves the neutral count out.
StatsOf_no_neutral(a, s, d, n) ==
    LET total == a + s + d
    IN  [ total_students        |-> total,
          attentive_count       |-> a,
          sleepy_count          |-> s,
          distracted_count      |-> d,
          neutral_count         |-> n,
          engagement_percentage |->
              IF total > 0 THEN Frac(a * 100, total) ELSE Zero ]

\* The dict both snapshot methods build from four counts.
StatsOf(a, s, d, n) ==
    LET total == a + s + d + n
    IN  [ total_students        |-> total,
          attentive_count       |-> a,
          sleepy_count          |-> s,
          distracted_count      |-> d,
          neutral_count         |-> n,
          engagement_percentage |->
              IF total > 0 THEN Frac(a * 100, total) ELSE Zero ]

\* get_current_stats
get_current_stats(an) ==
    StatsOf(an.attentive_count, an.sleepy_count, an.distracted_count,
            an.neutral_count)

\* A reset that clears the cumulative tally as well.
reset_interval_stats_all(an) ==
    [an EXCEPT !.attentive_count = 0, !.sleepy_count = 0,
               !.distracted_count = 0, !.neutral_count = 0,
               !.cumulative_stats = [attentive |-> 0, sleepy |-> 0,
                                     distracted |-> 0, neutral |-> 0]]

\* A reset that is left out.
reset_interval_stats_skipped(an) == an

\* reset_interval_stats
reset_interval_stats(an) ==
    [an EXCEPT !.attentive_count = 0, !.sleepy_count = 0,
               !.distracted_count = 0, !.neutral_count = 0]

\* get_cumulative_stats
get_cumulative_stats(an) ==
    StatsOf(an.cumulative_stats.attentive, an.cumulative_stats.sleepy,
            an.cumulative_stats.distracted, an.cumulative_stats.neutral)

\* No snapshot method has returned since the analyzer was written to.
NoStats == [taken |-> FALSE]
NoSnapshot == [current |-> NoStats, cumulative |-> NoStats]

\* A returned stats dict, as the caller holds it.
Taken(stats_dict) == [taken |-> TRUE, stats |-> stats_dict]

---------------------------------------------------------------------------
(* EngagementRecord rows.                                                  *)

NoRecord == [saved |-> FALSE]

\* EngagementRecord(...) as process_video builds it from a stats dict.
\* timestamp and processing_time are wall-clock readings and are left out.
EngagementRecord(stats, frame_number) ==
    [ saved                 |-> TRUE,
      total_students        |-> stats.total_students,
      attentive_count       |-> stats.attentive_count,
      sleepy_count          |-> stats.sleepy_count,
      distracted_count      |-> stats.distracted_count,
      neutral_count         |-> stats.neutral_count,
      engagement_percentage |-> stats.engagement_percentage,
      frame_number          |-> frame_number ]

\* save() that stores the ratio and forgets the factor 100.
EngagementRecord_save_ratio(rec) ==
    [rec EXCEPT !.engagement_percentage =
        IF rec.total_students > 0
        THEN Frac(rec.attentive_count, rec.total_students)
        ELSE Zero]

\* EngagementRecord.save: the row as it is stored.
EngagementRecord_save(rec) ==
    [rec EXCEPT !.engagement_percentage =
        IF rec.total_students > 0
        THEN Frac(rec.attentive_count * 100, rec.total_students)
        ELSE Zero]


---------------------------------------------------------------------------
(* The video source behind video_path.                                     *)

Source(exists, opens, kind, n) ==
    [exists |-> exists, opens |-> opens, kind |-> kind, nframes |-> n]

\* os.path.exists(video_path) is false.
MissingSource == Source(FALSE, FALSE, "free", 0)
\* The file exists and cap.isOpened() is false.
UnreadableSource == Source(TRUE, FALSE, "free", 0)
\* A readable source of n frames with freely chosen content.
FreeSources == {Source(TRUE, TRUE, "free", n) : n \in 0..MaxFrames}
\* 90 frames, two faces in each, both classified Attentive.
Scenario1Source == Source(TRUE, TRUE, "scenario1", 90)
\* 45 frames, two Sleepy faces in frames 1..30 and no face afterwards.
Scenario2Source == Source(TRUE, TRUE, "scenario2", 45)

Sources == {MissingSource, UnreadableSource, Scenario1Source, Scenario2Source}
               \cup FreeSources

\* The frames of freely chosen content: None, and every frame with at most
\* MaxFaces face regions.
FreeFrames ==
    {NoneFrame} \cup {Frame(f) : f \in SeqsUpTo(Regions, MaxFaces)}

\* The frames the i-th cap.read() of the source can deliver (i from 1).
FramesAt(src, i) ==
    CASE src.kind = "scenario1" ->
            {Frame(<< AttentiveRegion, AttentiveRegion >>)}
      [] src.kind = "scenario2" ->
            IF i <= 30 THEN {Frame(<< SleepyRegion, SleepyRegion >>)}
                       ELSE {Frame(<< >>)}
      [] OTHER -> FreeFrames

\* The save_interval values a direct call of process_video is tried with.
SaveIntervals == (1..MaxInterval) \cup {DefaultSaveInterval}

---------------------------------------------------------------------------
(* Run summaries (the dicts process_video and simulate_processing return). *)

NoResult == [returned |-> FALSE]

\* A failure summary that always reports no record.
FailureSummary_zero(error, n) ==
    [success |-> FALSE, error |-> error, records_created |-> 0]

FailureSummary(error, n) ==
    [success |-> FALSE, error |-> error, records_created |-> n]

SuccessSummary(an, n, elapsed) ==
    [ success              |-> TRUE,
      total_frames         |-> an.frame_count,
      total_faces_detected |-> an.total_faces_detected,
      records_created      |-> n,
      processing_time      |-> elapsed,
      final_stats          |-> get_cumulative_stats(an) ]

SimulatedSummary(n) ==
    [success |-> TRUE, records_created |-> n, simulated |-> TRUE]

\* result.get(key): the value, or None (FALSE here) when the key is absent.
Get(dict, key) == IF key \in DOMAIN dict THEN dict[key] ELSE FALSE

\* time.time() - start_time, an unknown non-negative reading.
Durations == 0..1

---------------------------------------------------------------------------
(* The VideoUpload row.                                                    *)

\* The row as upload_video's form.save() creates it: the model defaults.
NewVideoUpload ==
    [ processed         |-> FALSE,
      processing_status |-> "pending",
      duration_seconds  |-> NULL,
      total_frames      |-> NULL ]

\* No status request has been answered.
NoResponse == [answered |-> FALSE]

\* The JsonResponse of get_processing_status for a row.
StatusResponse(v) ==
    [ answered         |-> TRUE,
      status           |-> v.processing_status,
      processed        |-> v.processed,
      total_frames     |-> v.total_frames,
      duration_seconds |-> v.duration_seconds ]

---------------------------------------------------------------------------
(* Initial states: one call of one entry point on one input.               *)

Init ==
    /\ entry \in {"process_video", "async", "simulate"}
    /\ cv2_installed \in BOOLEAN
    \* the cascade file ships with OpenCV (cv2.data.haarcascades);
    \* simulate_processing looks neither at it nor at a source
    /\ cascade_file \in (IF cv2_installed /\ entry # "simulate"
                         THEN BOOLEAN ELSE {FALSE})
    /\ source \in (IF cv2_installed /\ entry # "simulate"
                   THEN Sources ELSE {MissingSource})
    /\ save_interval \in (IF entry = "process_video" THEN SaveIntervals
                          ELSE {DefaultSaveInterval})
    /\ video = NewVideoUpload
    /\ apc = (IF entry = "async" THEN "start" ELSE "none")
    /\ pc = "import"
    /\ analyzer = NoAnalyzer
    /\ cap = "none"
    /\ pos = 0
    /\ records = << >>
    /\ records_created = 0
    /\ result = NoResult
    /\ sim = [num_records |-> 0, i |-> 0]
    /\ sim_last = NoRecord
    /\ face_region = NoneRegion
    /\ behavior = "pending"
    /\ frame = NoneFrame
    /\ frame_result = NoFrameResult
    /\ snapshot = NoSnapshot
    /\ status_seen = NoResponse

---------------------------------------------------------------------------
(* Loading engagement/ai_engine.py.                                        *)

\* CV2_AVAILABLE of a loaded module.  The guarded "import cv2" of lines 29-33
\* runs after the unguarded one of line 16 has succeeded, so it succeeds too
\* (the module is in sys.modules).
CV2_AVAILABLE == TRUE

\* "from .ai_engine import process_video, simulate_processing" (views.py:9)
\* executes ai_engine.py, whose line 16 is an unguarded "import cv2": without
\* the package the ImportError leaves the module unloaded, and with it
\* engagement/views.py, so no entry point can be called.
import_ai_engine ==
    /\ pc = "import"
    /\ pc' = IF ~cv2_installed THEN "ImportError"
             ELSE CASE entry = "process_video" -> "call"
                    [] entry = "simulate" -> "sim_call"
                    [] OTHER -> "idle"
    /\ UNCHANGED << status_seen,
                    snapshot, frame, frame_result, face_region, behavior,
                    entry, cv2_installed, cascade_file, source, save_interval,
                    video, apc, analyzer, cap, pos, records, records_created,
                    result, sim, sim_last >>

---------------------------------------------------------------------------
(* process_video.                                                          *)

\* if not CV2_AVAILABLE: return failure.  No step of the program: in a
\* loaded module CV2_AVAILABLE is True, so pv_no_opencv is not part of Next.
pv_no_opencv ==
    /\ pc = "call"
    /\ ~CV2_AVAILABLE
    /\ result' = FailureSummary("OpenCV is not installed", 0)
    /\ pc' = "returned"
    /\ UNCHANGED << status_seen,
                    snapshot, frame, frame_result, face_region, behavior,
                    entry, cv2_installed, cascade_file, source, save_interval,
                    video, apc, analyzer, cap, pos, records, records_created,
                    sim, sim_last >>

\* process_video without the os.path.exists check: the analyzer is built and
\* the frame loop is entered on the missing file.
pv_not_found_unchecked ==
    /\ pc = "call"
    /\ cv2_installed
    /\ ~source.exists
    /\ analyzer' = EngagementAnalyzer(save_interval, cv2_installed, cascade_file)
    /\ cap' = "open"
    /\ pc' = "loop"
    /\ UNCHANGED << status_seen,
                    snapshot, frame, frame_result, face_region, behavior,
                    entry, cv2_installed, cascade_file, source, save_interval,
                    video, apc, pos, records, records_created, result, sim,
                    sim_last >>

\* if not os.path.exists(video_path): return failure
pv_not_found ==
    /\ pc = "call"
    /\ cv2_installed
    /\ ~source.exists
    /\ result' = FailureSummary("Video file not found", 0)
    /\ pc' = "returned"
    /\ UNCHANGED << status_seen,
                    snapshot, frame, frame_result, face_region, behavior,
                    entry, cv2_installed, cascade_file, source, save_interval,
                    video, apc, analyzer, cap, pos, records, records_created,
                    sim, sim_last >>

\* The analyzer is built, the capture is created and isOpened() is false:
\* return failure (the capture is not released on this path).
pv_cannot_open ==
    /\ pc = "call"
    /\ cv2_installed
    /\ source.exists
    /\ ~source.opens
    /\ analyzer' = EngagementAnalyzer(save_interval, cv2_installed, cascade_file)
    /\ cap' = "unopened"
    /\ result' = FailureSummary("Could not open video file", 0)
    /\ pc' = "returned"
    /\ UNCHANGED << status_seen,
                    snapshot, frame, frame_result, face_region, behavior,
                    entry, cv2_installed, cascade_file, source, save_interval,
                    video, apc, pos, records, records_created, sim, sim_last >>

\* The analyzer is built, the capture opens, records_created = 0, and the
\* frame loop is entered.
pv_open ==
    /\ pc = "call"
    /\ cv2_installed
    /\ source.exists
    /\ source.opens
    /\ analyzer' = EngagementAnalyzer(save_interval, cv2_installed, cascade_file)
    /\ cap' = "open"
    /\ records_created' = 0
    /\ pc' = "loop"
    /\ UNCHANGED << status_seen,
                    snapshot, frame, frame_result, face_region, behavior,
                    entry, cv2_installed, cascade_file, source, save_interval,
                    video, apc, pos, records, result, sim, sim_last >>

\* A flush one frame early: (frame_count + 1) % save_interval == 0.
IsSaveFrame_early(frame_count, interval) == (frame_count + 1) % interval = 0

\* analyzer.frame_count % save_interval == 0
IsSaveFrame(frame_count, interval) == frame_count % interval = 0

\* A loop body that drops the number of faces process_frame returns.
AfterFrame_faces_dropped(an, fr) ==
    process_frame([an EXCEPT !.frame_count = @ + 1], fr)

\* The analyzer after frame_count += 1, process_frame(frame) and
\* total_faces_detected += faces_detected.
AfterFrame(an, fr) ==
    LET counted == [an EXCEPT !.frame_count = @ + 1]
    IN  [process_frame(counted, fr) EXCEPT
            !.total_faces_detected = @ + faces_detected(counted, fr)]

\* The row an interval flush or the final flush saves.
FlushRecord(an) ==
    EngagementRecord_save(
        EngagementRecord(get_current_stats(an), an.frame_count))

\* One iteration of the while loop that reads a frame: count it, process it,
\* and at a multiple of save_interval save a record and reset the interval.
pv_frame ==
    /\ pc = "loop"
    /\ pos < source.nframes
    /\ \E fr \in FramesAt(source, pos + 1) :
       \E an \in {AfterFrame(analyzer, fr)} :
         IF IsSaveFrame(an.frame_count, save_interval)
         THEN /\ \E record \in {FlushRecord(an)} :
                   records' = Append(records, record)
              /\ records_created' = records_created + 1
              /\ analyzer' = reset_interval_stats(an)
         ELSE /\ analyzer' = an
              /\ UNCHANGED << records, records_created >>
    /\ pos' = pos + 1
    /\ UNCHANGED << status_seen,
                    snapshot, frame, frame_result, face_region, behavior,
                    entry, cv2_installed, cascade_file, source, save_interval,
                    video, apc, pc, cap, result, sim, sim_last >>

\* cap.read() returns ret = False: break; finally releases the capture.
pv_end_of_stream ==
    /\ pc = "loop"
    /\ pos = source.nframes
    /\ cap' = "released"
    /\ pc' = "flush"
    /\ UNCHANGED << status_seen,
                    snapshot, frame, frame_result, face_region, behavior,
                    entry, cv2_installed, cascade_file, source, save_interval,
                    video, apc, analyzer, pos, records, records_created,
                    result, sim, sim_last >>

\* An exception inside the try block: raised by cap.read(), by process_frame
\* (cvtColor, equalizeHist, detectMultiScale: before any count changes), or
\* by record.save() of the interval record.  except returns the failure
\* summary; finally releases the capture.
pv_error ==
    /\ pc = "loop"
    /\ \E step \in {"read", "process", "save"} :
         /\ step \in {"process", "save"} => pos < source.nframes
         /\ \E fr \in FramesAt(source, pos + 1) :
              LET counted == [analyzer EXCEPT !.frame_count = @ + 1]
                  an == AfterFrame(analyzer, fr)
              IN  /\ step = "save" => IsSaveFrame(an.frame_count, save_interval)
                  /\ analyzer' = CASE step = "read" -> analyzer
                                   [] step = "process" -> counted
                                   [] OTHER -> an
         /\ pos' = (IF step = "read" THEN pos ELSE pos + 1)
         /\ result' = FailureSummary(step, records_created)
    /\ cap' = "released"
    /\ pc' = "returned"
    /\ UNCHANGED << status_seen,
                    snapshot, frame, frame_result, face_region, behavior,
                    entry, cv2_installed, cascade_file, source, save_interval,
                    video, apc, records, records_created, sim, sim_last >>

\* The final flush without the check that the tally is non-empty.
NeedsFinalFlush_unchecked(an, interval) ==
    ~IsSaveFrame(an.frame_count, interval)

\* if frame_count % save_interval != 0 and stats['total_students'] > 0
NeedsFinalFlush(an, interval) ==
    /\ ~IsSaveFrame(an.frame_count, interval)
    /\ get_current_stats(an).total_students > 0

\* After the loop: the final partial-interval record if one is due, then the
\* success summary.
pv_final_flush ==
    /\ pc = "flush"
    /\ IF NeedsFinalFlush(analyzer, save_interval)
       THEN /\ records' = Append(records, FlushRecord(analyzer))
            /\ \E elapsed \in Durations :
                 result' = SuccessSummary(analyzer, records_created + 1, elapsed)
            /\ records_created' = records_created + 1
       ELSE /\ \E elapsed \in Durations :
                 result' = SuccessSummary(analyzer, records_created, elapsed)
            /\ UNCHANGED << records, records_created >>
    /\ pc' = "returned"
    /\ UNCHANGED << status_seen,
                    snapshot, frame, frame_result, face_region, behavior,
                    entry, cv2_installed, cascade_file, source, save_interval,
                    video, apc, analyzer, cap, pos, sim, sim_last >>

\* record.save() of the final record raises: this is after the try block,
\* so the exception leaves process_video.
pv_final_flush_error ==
    /\ pc = "flush"
    /\ NeedsFinalFlush(analyzer, save_interval)
    /\ pc' = "raised"
    /\ UNCHANGED << status_seen,
                    snapshot, frame, frame_result, face_region, behavior,
                    entry, cv2_installed, cascade_file, source, save_interval,
                    video, apc, analyzer, cap, pos, records, records_created,
                    result, sim, sim_last >>

---------------------------------------------------------------------------
(* simulate_processing.                                                    *)

\* random.randint(a, b): any integer of a..b.
randint(a, b) == a..b

\* The draws of randint(a, b) that the model follows: both ends of the range
\* and the value next to the low end.
Sampled(a, b) == {x \in {a, a + 1, b} : x \in randint(a, b)}

\* A row whose neutral count forgets the distracted students.
SimulatedRecord_neutral_rest(total, attentive, sleepy, distracted, i) ==
    EngagementRecord_save(
        [ saved                 |-> TRUE,
          total_students        |-> total,
          attentive_count       |-> attentive,
          sleepy_count          |-> sleepy,
          distracted_count      |-> distracted,
          neutral_count         |-> total - attentive - sleepy,
          engagement_percentage |->
              IF total > 0 THEN Frac(attentive * 100, total) ELSE Zero,
          frame_number          |-> i * 30 ])

\* The row one iteration builds and saves.
SimulatedRecord(total, attentive, sleepy, distracted, i) ==
    EngagementRecord_save(
        [ saved                 |-> TRUE,
          total_students        |-> total,
          attentive_count       |-> attentive,
          sleepy_count          |-> sleepy,
          distracted_count      |-> distracted,
          neutral_count         |-> total - attentive - sleepy - distracted,
          engagement_percentage |->
              IF total > 0 THEN Frac(attentive * 100, total) ELSE Zero,
          frame_number          |-> i * 30 ])

\* num_records = random.randint(10, 30); records_created = 0
sim_begin ==
    /\ pc = "sim_call"
    /\ \E n \in Sampled(10, 30) :
         sim' = [num_records |-> n, i |-> 0]
    /\ records_created' = 0
    /\ pc' = "sim_loop"
    /\ UNCHANGED << status_seen,
                    snapshot, frame, frame_result, face_region, behavior,
                    entry, cv2_installed, cascade_file, source, save_interval,
                    video, apc, analyzer, cap, pos, records, result, sim_last >>

\* One iteration of "for i in range(num_records)".  The store keeps the row
\* saved last: the rows are drawn independently of each other.
sim_iteration ==
    /\ pc = "sim_loop"
    /\ sim.i < sim.num_records
    /\ \E total \in Sampled(5, 20) :
       \E attentive \in Sampled(2, total) :
       \E sleepy \in Sampled(0, total - attentive) :
       \E distracted \in Sampled(0, total - attentive - sleepy) :
       \E record \in
            {SimulatedRecord(total, attentive, sleepy, distracted, sim.i)} :
         sim_last' = record
    /\ records_created' = records_created + 1
    /\ sim' = [sim EXCEPT !.i = @ + 1]
    /\ UNCHANGED << status_seen,
                    snapshot, frame, frame_result, face_region, behavior,
                    entry, cv2_installed, cascade_file, source, save_interval,
                    video, apc, pc, analyzer, cap, pos, records, result >>

\* record.save() raises inside the loop: nothing catches it here.
sim_error ==
    /\ pc = "sim_loop"
    /\ sim.i < sim.num_records
    /\ pc' = "raised"
    /\ UNCHANGED << status_seen,
                    snapshot, frame, frame_result, face_region, behavior,
                    entry, cv2_installed, cascade_file, source, save_interval,
                    video, apc, analyzer, cap, pos, records, records_created,
                    result, sim, sim_last >>

\* The loop is over: return the summary.
sim_return ==
    /\ pc = "sim_loop"
    /\ sim.i = sim.num_records
    /\ result' = SimulatedSummary(records_created)
    /\ pc' = "returned"
    /\ UNCHANGED << status_seen,
                    snapshot, frame, frame_result, face_region, behavior,
                    entry, cv2_installed, cascade_file, source, save_interval,
                    video, apc, analyzer, cap, pos, records, records_created,
                    sim, sim_last >>

---------------------------------------------------------------------------
(* process_video_async.                                                    *)
(* VideoUpload.objects.get and video_upload.save() are taken to succeed:   *)
(* the row exists for the whole run.                                       *)

\* The update with "processed = True" set before the summary is looked at.
UpdatedVideo_processed_first(v, res) ==
    IF Get(res, "success") = TRUE
    THEN [ processed         |-> TRUE,
           processing_status |-> "completed",
           total_frames      |-> IF "total_frames" \in DOMAIN res
                                 THEN res.total_frames ELSE v.total_frames,
           duration_seconds  |-> IF "processing_time" \in DOMAIN res
                                 THEN res.processing_time
                                 ELSE v.duration_seconds ]
    ELSE [v EXCEPT !.processing_status = "failed", !.processed = TRUE]

\* An update that completes the row and forgets to mark it processed.
UpdatedVideo_unmarked(v, res) ==
    IF Get(res, "success") = TRUE
    THEN [ processed         |-> v.processed,
           processing_status |-> "completed",
           total_frames      |-> IF "total_frames" \in DOMAIN res
                                 THEN res.total_frames ELSE v.total_frames,
           duration_seconds  |-> IF "processing_time" \in DOMAIN res
                                 THEN res.processing_time
                                 ELSE v.duration_seconds ]
    ELSE [v EXCEPT !.processing_status = "failed"]

\* An update that marks the row and copies nothing from the summary.
UpdatedVideo_status_only(v, res) ==
    IF Get(res, "success") = TRUE
    THEN [v EXCEPT !.processed = TRUE, !.processing_status = "completed"]
    ELSE [v EXCEPT !.processing_status = "failed"]

\* The row after a summary came back.
UpdatedVideo(v, res) ==
    IF Get(res, "success") = TRUE
    THEN [ processed         |-> TRUE,
           processing_status |-> "completed",
           total_frames      |-> IF "total_frames" \in DOMAIN res
                                 THEN res.total_frames ELSE v.total_frames,
           duration_seconds  |-> IF "processing_time" \in DOMAIN res
                                 THEN res.processing_time
                                 ELSE v.duration_seconds ]
    ELSE [v EXCEPT !.processing_status = "failed"]

\* An except handler that only logs.
FailedVideo_logged_only(v) == v

\* The row after the outer except handler.
FailedVideo(v) == [v EXCEPT !.processing_status = "failed"]

\* The status is saved as processing; then "import cv2" decides between
\* process_video(video_path, video_upload_id, save_interval=30) and
\* simulate_processing(video_upload_id).  When this runs the module has
\* loaded, so cv2 is installed and the except ImportError branch is not
\* taken.
pa_begin ==
    /\ apc = "start"
    /\ pc = "idle"
    /\ video' = [video EXCEPT !.processing_status = "processing"]
    /\ pc' = (IF cv2_installed THEN "call" ELSE "sim_call")
    /\ apc' = "running"
    /\ UNCHANGED << status_seen,
                    snapshot, frame, frame_result, face_region, behavior,
                    entry, cv2_installed, cascade_file, source, save_interval,
                    analyzer, cap, pos, records, records_created, result,
                    sim, sim_last >>

\* The call returned a summary: the row is updated from it and saved.
pa_update ==
    /\ apc = "running"
    /\ pc = "returned"
    /\ video' = UpdatedVideo(video, result)
    /\ apc' = "done"
    /\ UNCHANGED << status_seen,
                    snapshot, frame, frame_result, face_region, behavior,
                    entry, cv2_installed, cascade_file, source, save_interval,
                    pc, analyzer, cap, pos, records, records_created, result,
                    sim, sim_last >>

\* The call raised: the outer except marks the row failed.
pa_except ==
    /\ apc = "running"
    /\ pc = "raised"
    /\ video' = FailedVideo(video)
    /\ apc' = "done"
    /\ UNCHANGED << status_seen,
                    snapshot, frame, frame_result, face_region, behavior,
                    entry, cv2_installed, cascade_file, source, save_interval,
                    pc, analyzer, cap, pos, records, records_created, result,
                    sim, sim_last >>

\* get_processing_status: a request of the status endpoint, served by
\* another thread at any moment of a run of process_video_async (the views
\* module has loaded); it reads the stored row and writes nothing.
get_processing_status ==
    /\ entry = "async"
    /\ pc \notin {"import", "ImportError"}
    /\ status_seen' = StatusResponse(video)
    /\ status_seen' # status_seen
    /\ UNCHANGED << entry, cv2_installed, cascade_file, source, save_interval,
                    video, apc, pc, analyzer, cap, pos, records,
                    records_created, result, sim, sim_last, face_region,
                    behavior, frame, frame_result, snapshot >>

---------------------------------------------------------------------------
(* A direct call of classify_behavior on one face region.                  *)

\* Means of the pixels around the thresholds 80 and 100.
Brightnesses == {50, 79, 80, 81, 100, 101, 110}
\* Standard deviations around the thresholds 30 and 40.
Contrasts == {10, 29, 30, 31, 40, 41, 50}
\* Heights: zero (an empty slice) and 10, so that w / h = w / 10.
Heights == {0, 10}

\* The regions classify_behavior is called on: None, and every combination
\* of the values above, with and without an exception in the try block.
ClassifyInputs ==
    {NoneRegion}
      \cup { Region(b, c, w, h) :
                b \in Brightnesses, c \in Contrasts, w \in 0..MaxWidth,
                h \in Heights }
      \cup { Raising(Region(b, c, w, h)) :
                b \in Brightnesses, c \in Contrasts, w \in 0..MaxWidth,
                h \in Heights }

\* An analyzer exists and classify_behavior is about to be called on a region.
ClassifyInit ==
    /\ entry = "classify_behavior"
    /\ cv2_installed = TRUE
    /\ cascade_file = TRUE
    /\ source = MissingSource
    /\ save_interval = DefaultSaveInterval
    /\ video = NewVideoUpload
    /\ apc = "none"
    /\ pc = "classify_call"
    /\ analyzer = EngagementAnalyzer(save_interval, cv2_installed, cascade_file)
    /\ cap = "none"
    /\ pos = 0
    /\ records = << >>
    /\ records_created = 0
    /\ result = NoResult
    /\ sim = [num_records |-> 0, i |-> 0]
    /\ sim_last = NoRecord
    /\ face_region \in ClassifyInputs
    /\ behavior = "pending"
    /\ frame = NoneFrame
    /\ frame_result = NoFrameResult
    /\ snapshot = NoSnapshot
    /\ status_seen = NoResponse

\* behavior = analyzer.classify_behavior(face_region)
cb_classify ==
    /\ pc = "classify_call"
    /\ behavior' = classify_behavior(face_region)
    /\ pc' = (IF behavior' = "raise" THEN "raised" ELSE "returned")
    /\ UNCHANGED << status_seen,
                    snapshot, frame, frame_result, face_region, entry,
                    cv2_installed,
                    cascade_file, source,
                    save_interval, video, apc, analyzer, cap, pos, records,
                    records_created, result, sim, sim_last >>

ClassifyNext == cb_classify

ClassifySpec == ClassifyInit /\ [][ClassifyNext]_vars

---------------------------------------------------------------------------
(* An EngagementAnalyzer whose methods are called directly: process_frame  *)
(* on frames of any content and reset_interval_stats, in any order.  pc    *)
(* names the method called last, pos counts the calls of process_frame.    *)

AnalyzerInit ==
    /\ entry = "EngagementAnalyzer"
    /\ cv2_installed = TRUE
    /\ cascade_file \in BOOLEAN
    /\ source = MissingSource
    /\ save_interval = DefaultSaveInterval
    /\ video = NewVideoUpload
    /\ apc = "none"
    /\ pc = "__init__"
    /\ analyzer = EngagementAnalyzer(save_interval, cv2_installed, cascade_file)
    /\ cap = "none"
    /\ pos = 0
    /\ records = << >>
    /\ records_created = 0
    /\ result = NoResult
    /\ sim = [num_records |-> 0, i |-> 0]
    /\ sim_last = NoRecord
    /\ face_region = NoneRegion
    /\ behavior = "pending"
    /\ frame = NoneFrame
    /\ frame_result = NoFrameResult
    /\ snapshot = NoSnapshot
    /\ status_seen = NoResponse

\* faces_detected, counts = analyzer.process_frame(frame)
an_process_frame ==
    /\ entry = "EngagementAnalyzer"
    /\ pos < MaxCalls
    /\ \E fr \in FreeFrames :
         /\ frame' = fr
         /\ frame_result' = process_frame_result(analyzer, fr)
         /\ analyzer' = process_frame(analyzer, fr)
    /\ pos' = pos + 1
    /\ pc' = "process_frame"
    /\ snapshot' = NoSnapshot
    /\ UNCHANGED << status_seen,
                    face_region, behavior, entry, cv2_installed, cascade_file,
                    source, save_interval, video, apc, cap, records,
                    records_created, result, sim, sim_last >>

\* analyzer.reset_interval_stats()
an_reset_interval_stats ==
    /\ entry = "EngagementAnalyzer"
    /\ analyzer' = reset_interval_stats(analyzer)
    /\ pc' = "reset_interval_stats"
    /\ snapshot' = NoSnapshot
    /\ UNCHANGED << status_seen,
                    frame, frame_result, face_region, behavior, entry,
                    cv2_installed, cascade_file, source, save_interval, video,
                    apc, cap, pos, records, records_created, result, sim,
                    sim_last >>

\* A get_current_stats that clears the interval counters once it has read
\* them.
an_get_current_stats_resetting ==
    /\ entry = "EngagementAnalyzer"
    /\ snapshot' = [snapshot EXCEPT
                       !.current = Taken(get_current_stats(analyzer))]
    /\ analyzer' = reset_interval_stats(analyzer)
    /\ pc' = "get_current_stats"
    /\ UNCHANGED << status_seen,
                    frame, frame_result, face_region, behavior, entry,
                    cv2_installed, cascade_file, source, save_interval, video,
                    apc, cap, pos, records, records_created, result, sim,
                    sim_last >>

\* stats = analyzer.get_current_stats(): the method reads the four interval
\* counters and assigns to no attribute.
an_get_current_stats ==
    /\ entry = "EngagementAnalyzer"
    /\ snapshot' = [snapshot EXCEPT
                       !.current = Taken(get_current_stats(analyzer))]
    /\ pc' = "get_current_stats"
    /\ UNCHANGED << status_seen,
                    analyzer, frame, frame_result, face_region, behavior,
                    entry, cv2_installed, cascade_file, source, save_interval,
                    video, apc, cap, pos, records, records_created, result,
                    sim, sim_last >>

\* final_stats = analyzer.get_cumulative_stats(): the method reads
\* cumulative_stats and assigns to no attribute.
an_get_cumulative_stats ==
    /\ entry = "EngagementAnalyzer"
    /\ snapshot' = [snapshot EXCEPT
                       !.cumulative = Taken(get_cumulative_stats(analyzer))]
    /\ pc' = "get_cumulative_stats"
    /\ UNCHANGED << status_seen,
                    analyzer, frame, frame_result, face_region, behavior,
                    entry, cv2_installed, cascade_file, source, save_interval,
                    video, apc, cap, pos, records, records_created, result,
                    sim, sim_last >>

AnalyzerNext ==
    \/ an_process_frame
    \/ an_reset_interval_stats
    \/ an_get_current_stats
    \/ an_get_cumulative_stats

AnalyzerSpec == AnalyzerInit /\ [][AnalyzerNext]_vars

---------------------------------------------------------------------------
(* The specification.                                                      *)

\* The steps of the call of the entry point.
RunNext ==
    \/ import_ai_engine
    \/ pv_not_found
    \/ pv_cannot_open
    \/ pv_open
    \/ pv_frame
    \/ pv_end_of_stream
    \/ pv_error
    \/ pv_final_flush
    \/ pv_final_flush_error
    \/ sim_begin
    \/ sim_iteration
    \/ sim_error
    \/ sim_return
    \/ pa_begin
    \/ pa_update
    \/ pa_except

Next == RunNext \/ get_processing_status

Spec == Init /\ [][Next]_vars

---------------------------------------------------------------------------
(* Properties.                                                             *)

\* process_video returned its success summary (not simulate_processing's).
Completed ==
    /\ pc = "returned"
    /\ Get(result, "success") = TRUE
    /\ "final_stats" \in DOMAIN result

\* process_video returned a failure summary from the except clause of the
\* frame loop.
FailedInLoop ==
    /\ pc = "returned"
    /\ Get(result, "success") = FALSE
    /\ cap = "released"

\* The rows of a sequence of records that sit at a multiple of the interval.
FullIntervalRecords(recs, interval) ==
    SelectSeq(recs, LAMBDA r : r.frame_number % interval = 0)

\* C1: while the frame loop runs without error, after p frames exactly the
\* records of the frames S, 2S, ..., floor(p/S)*S have been saved, in this
\* order and nothing else; and once end-of-stream is reached without error
\* after N frames, the records stamped with a multiple of S are exactly
\* floor(N/S), the k-th one stamped k*S.
C1_IntervalRecords ==
    /\ pc = "loop" =>
         /\ Len(records) = pos \div save_interval
         /\ \A k \in 1..Len(records) :
              records[k].frame_number = k * save_interval
    /\ (pc = "flush" \/ Completed) =>
         LET full == FullIntervalRecords(records, save_interval)
         IN  /\ pos = source.nframes
             /\ Len(full) = source.nframes \div save_interval
             /\ \A k \in 1..Len(full) :
                  /\ full[k].frame_number = k * save_interval
                  /\ records[k] = full[k]

\* A completed run over 3 frames with save_interval 1: three interval records.
C1_Witness ==
    /\ Completed
    /\ source.nframes = 3
    /\ save_interval = 1
    /\ Len(records) = 3

\* The detector is loaded, so the faces of the source are found.
DetectorLoaded == analyzer.created /\ analyzer.face_cascade # "None"

\* The value 100.0.
Hundred == [num |-> 100, den |-> 1]

\* C2: a completed run over the 90-frame source with two Attentive faces in
\* every frame and save_interval = 30 has saved exactly 3 records, each with
\* total_students = 2, attentive_count = 2, engagement_percentage = 100.0.
C2_Scenario1 ==
    (/\ Completed
     /\ source = Scenario1Source
     /\ save_interval = 30
     /\ DetectorLoaded)
    => /\ Len(records) = 3
       /\ \A k \in 1..Len(records) :
            /\ records[k].total_students = 2
            /\ records[k].attentive_count = 2
            /\ records[k].engagement_percentage = Hundred

\* What the run of C2 saves: 3 records, each the tally of the 30 frames of
\* its interval, 60 detections, all Attentive.
C2_Observed ==
    (/\ Completed
     /\ source = Scenario1Source
     /\ save_interval = 30
     /\ DetectorLoaded)
    => /\ Len(records) = 3
       /\ \A k \in 1..Len(records) :
            /\ records[k].total_students = 60
            /\ records[k].attentive_count = 60
            /\ records[k].engagement_percentage = Hundred

\* C3: a completed run over the 45-frame source with two Sleepy faces in
\* frames 1..30 and none afterwards, save_interval = 30, has saved exactly
\* one record, the full-interval record of frame 30, with total_students = 2,
\* sleepy_count = 2, engagement_percentage = 0.0, and no final record.
C3_Scenario2 ==
    (/\ Completed
     /\ source = Scenario2Source
     /\ save_interval = 30
     /\ DetectorLoaded)
    => /\ Len(records) = 1
       /\ records[1].frame_number = 30
       /\ records[1].total_students = 2
       /\ records[1].sleepy_count = 2
       /\ records[1].engagement_percentage = Zero

\* What the run of C3 saves: one record at frame 30 with the tally of 30
\* frames, 60 detections, all Sleepy, and no final record.
C3_Observed ==
    (/\ Completed
     /\ source = Scenario2Source
     /\ save_interval = 30
     /\ DetectorLoaded)
    => /\ Len(records) = 1
       /\ records[1].frame_number = 30
       /\ records[1].total_students = 60
       /\ records[1].sleepy_count = 60
       /\ records[1].engagement_percentage = Zero

\* The sum of the first n numbers of a sequence.
RECURSIVE SumFirst(_, _)
SumFirst(nums, n) ==
    IF n = 0 THEN 0 ELSE nums[n] + SumFirst(nums, n - 1)

\* The interval tally is non-empty.
TallyNonEmpty ==
    analyzer.attentive_count + analyzer.sleepy_count
        + analyzer.distracted_count + analyzer.neutral_count > 0

\* C4: when process_video has completed a run over N frames, it has saved
\* one record after the floor(N/S) interval records exactly if N is not a
\* multiple of S and the interval tally is non-empty, and none otherwise;
\* that record is stamped N and carries, for each label, the cumulative count
\* less what the interval records carry; there are at most floor(N/S)+1
\* records and no two have the same frame_number.
C4_FinalRecord ==
    Completed =>
      LET N == source.nframes
          full == N \div save_interval
          last == records[Len(records)]
          cum == analyzer.cumulative_stats
      IN  /\ Len(records) \in {full, full + 1}
          /\ Len(records) = full + 1
               <=> (N % save_interval # 0 /\ TallyNonEmpty)
          /\ Len(records) = full + 1 =>
               /\ last.frame_number = N
               /\ last.attentive_count = cum.attentive
                    - SumFirst([k \in 1..full |-> records[k].attentive_count], full)
               /\ last.sleepy_count = cum.sleepy
                    - SumFirst([k \in 1..full |-> records[k].sleepy_count], full)
               /\ last.distracted_count = cum.distracted
                    - SumFirst([k \in 1..full |-> records[k].distracted_count], full)
               /\ last.neutral_count = cum.neutral
                    - SumFirst([k \in 1..full |-> records[k].neutral_count], full)
               /\ last.total_students = last.attentive_count
                    + last.sleepy_count + last.distracted_count
                    + last.neutral_count
          /\ \A j, k \in 1..Len(records) :
               j # k => records[j].frame_number # records[k].frame_number

\* A completed run over 3 frames with save_interval 2: the record of frame 2
\* and a final record of frame 3.
C4_Witness ==
    /\ Completed
    /\ source.nframes = 3
    /\ save_interval = 2
    /\ Len(records) = 2
    /\ records[2].frame_number = 3
    /\ records[2].total_students = 1

\* A completed run whose frame count is no multiple of save_interval and
\* whose tally is empty at the end: no final record.
C4_WitnessNoFinal ==
    /\ Completed
    /\ source.nframes = 3
    /\ save_interval = 2
    /\ Len(records) = 1
    /\ analyzer.cumulative_stats.attentive = 2

\* engagement_percentage of a stored row is attentive_count / total_students
\* * 100 (as an equation between fractions), 0.0 when total_students is 0.
PercentageInvariant(r) ==
    /\ r.engagement_percentage.den > 0
    /\ IF r.total_students > 0
       THEN r.engagement_percentage.num * r.total_students
                = r.attentive_count * 100 * r.engagement_percentage.den
       ELSE r.engagement_percentage = Zero

\* C5: every row saved by an interval flush, by the final flush or by
\* simulate_processing has engagement_percentage = attentive_count /
\* total_students * 100 when total_students > 0, and 0.0 otherwise.
C5_Percentage ==
    /\ \A k \in 1..Len(records) : PercentageInvariant(records[k])
    /\ sim_last.saved => PercentageInvariant(sim_last)

\* A run that has saved a row with one Attentive face out of two (50.0)
\* and a final row with one face that is not Attentive (0.0).
C5_Witness ==
    /\ Len(records) = 2
    /\ records[1].total_students = 2
    /\ records[1].attentive_count = 1
    /\ records[1].engagement_percentage = [num |-> 50, den |-> 1]
    /\ records[2].total_students = 1
    /\ records[2].engagement_percentage = Zero

\* The four counts of a snapshot or a row are non-negative and add up to
\* total_students.
Conserved(r) ==
    /\ r.attentive_count >= 0
    /\ r.sleepy_count >= 0
    /\ r.distracted_count >= 0
    /\ r.neutral_count >= 0
    /\ r.attentive_count + r.sleepy_count + r.distracted_count
           + r.neutral_count = r.total_students

\* C6: in every state the interval snapshot and the cumulative snapshot have
\* non-negative counts that add up to total_students and that are the
\* analyzer's counters, and so has every stored row, those of
\* simulate_processing included.
C6_Conservation ==
    /\ analyzer.created =>
         /\ Conserved(get_current_stats(analyzer))
         /\ get_current_stats(analyzer).neutral_count = analyzer.neutral_count
         /\ Conserved(get_cumulative_stats(analyzer))
         /\ get_cumulative_stats(analyzer).neutral_count
                = analyzer.cumulative_stats.neutral
    /\ \A k \in 1..Len(records) : Conserved(records[k])
    /\ sim_last.saved => Conserved(sim_last)

\* A run that has saved a row with a Neutral detection while its interval
\* tally holds a detection again.
C6_Witness ==
    /\ Len(records) >= 1
    /\ records[1].neutral_count = 1
    /\ analyzer.created
    /\ get_current_stats(analyzer).total_students = 1
    /\ get_cumulative_stats(analyzer).total_students = 2

\* simulate_processing has saved a row with every count positive.
SimulatedRowSaved ==
    /\ sim_last.saved
    /\ sim_last.sleepy_count > 0
    /\ sim_last.distracted_count > 0
    /\ sim_last.neutral_count > 0

\* C7: an exception in the frame loop (from cap.read(), process_frame or the
\* save of the interval record) ends the loop with a returned summary that
\* has success = False, an error text and records_created = the number of
\* records saved before; the step saves nothing and removes nothing, the
\* capture is released, and afterwards the stored records never change.
C7_LoopError ==
    /\ [](FailedInLoop =>
            /\ "error" \in DOMAIN result
            /\ result.records_created = Len(records)
            /\ result.records_created = records_created)
    /\ [][(pc = "loop" /\ pc' = "returned") =>
            /\ Get(result', "success") = FALSE
            /\ cap' = "released"
            /\ records' = records
            /\ result'.records_created = Len(records)]_vars
    /\ [][FailedInLoop => (records' = records /\ pc' = pc)]_vars

\* The save of the second interval record raised: the summary reports the
\* one record saved before.
C7_Witness ==
    /\ FailedInLoop
    /\ result.error = "save"
    /\ Len(records) = 1
    /\ analyzer.frame_count = 2 * save_interval

\* process_video got past its OpenCV check on a source that is missing or
\* cannot be opened.
OpenFailed ==
    /\ entry # "simulate"
    /\ cv2_installed
    /\ ~source.exists \/ ~source.opens
    /\ pc \notin {"import", "idle", "call"}

\* What every open failure leaves behind: the failure summary with
\* records_created = 0, no record, no frame read.
OpenFailureOutcome ==
    /\ pc = "returned"
    /\ Get(result, "success") = FALSE
    /\ result.records_created = 0
    /\ records = << >>
    /\ ~sim_last.saved
    /\ pos = 0

MissingRun ==
    /\ entry = "async"
    /\ cv2_installed
    /\ ~source.exists

\* The outcome of such a run: the failure summary, no record anywhere.
MissingRunOutcome ==
    (MissingRun /\ apc = "done") =>
      /\ pc = "returned"
      /\ result = FailureSummary("Video file not found", 0)
      /\ records = << >>
      /\ ~sim_last.saved

\* C9 as stated: the summary is the failure summary with records_created = 0,
\* no record is created, and the only change ever made to the VideoUpload is
\* that processing_status becomes failed.
C9_Original ==
    /\ []MissingRunOutcome
    /\ [][(MissingRun /\ video' # video) =>
            video' = [video EXCEPT !.processing_status = "failed"]]_vars

\* C9, amended: as stated, except that the VideoUpload is first marked
\* processing (pending -> processing at the start of the run) and then
\* failed; no other field ever changes, so the row ends as it was created
\* but for processing_status = failed.
C9_MissingSource ==
    /\ []MissingRunOutcome
    /\ []((MissingRun /\ apc = "done") =>
            video = [NewVideoUpload EXCEPT !.processing_status = "failed"])
    /\ [][(MissingRun /\ video' # video) =>
            \/ /\ video.processing_status = "pending"
               /\ video' = [video EXCEPT !.processing_status = "processing"]
            \/ /\ video.processing_status = "processing"
               /\ video' = [video EXCEPT !.processing_status = "failed"]]_vars

\* The run on the missing path is over.
C9_Witness ==
    /\ MissingRun
    /\ apc = "done"
    /\ video.processing_status = "failed"

\* The status changes process_video_async may make.
StatusMoves ==
    { << "pending", "processing" >>,
      << "processing", "completed" >>,
      << "processing", "failed" >> }

\* Where the call stands, counted down: it never goes back.
Stage ==
    CASE pc = "import" -> 7
      [] apc = "start" -> 6
      [] pc \in {"call", "sim_call"} -> 5
      [] pc \in {"loop", "sim_loop"} -> 4
      [] pc = "flush" -> 3
      [] apc = "running" -> 2
      [] OTHER -> 1

\* A bound on the steps the call still takes: the stage, and within the
\* loops the frames (rows) still to come.  A source has fewer than 100
\* frames, simulate_processing draws at most 30 rows.
StepsLeft ==
    Stage * 100
      + (CASE pc = "loop" -> source.nframes - pos
           [] pc = "sim_loop" -> sim.num_records - sim.i
           [] OTHER -> 0)

C10_WitnessCompleted ==
    /\ entry = "async"
    /\ apc = "done"
    /\ Completed
    /\ Len(records) = 3
    /\ video.processing_status = "completed"

ProcessVideoOver ==
    /\ entry # "simulate"
    /\ pc \in {"returned", "raised"}

\* C12: when process_video is over and has created a capture, the capture
\* has been released, also on the early return taken when the capture could
\* not be opened; and no record is stored by a run that is over with its
\* capture unreleased.
C12_Released ==
    ProcessVideoOver =>
      /\ cap # "none" => cap = "released"
      /\ (cap # "none" /\ cap # "released") => records = << >>

\* What process_video does: the capture is released after the frame loop,
\* by end-of-stream or by an error; the early return on a capture that did
\* not open leaves it unreleased, and no record is stored by that run.
C12_Observed ==
    ProcessVideoOver =>
      /\ cap = "released" <=> (source.exists /\ source.opens)
      /\ cap = "unopened" <=> (source.exists /\ ~source.opens)
      /\ cap = "none" <=> ~source.exists
      /\ cap # "released" => (records = << >> /\ records_created = 0)

\* classify_behavior has returned on a region of non-zero area on which
\* nothing raised.
Classified ==
    /\ pc = "returned"
    /\ ~face_region.isNone
    /\ ~face_region.raises
    /\ face_region.w * face_region.h # 0

\* The four-rule priority function of a region (b, c, w, h) of non-zero
\* area, with w / h < x written as w < x * h in tenths.
FourRule(b, c, w, h) ==
    CASE b < 80 /\ c < 30 -> "Sleepy"
      [] ~(b < 80 /\ c < 30) /\ (w * 10 < 6 * h \/ w * 10 > 14 * h)
            -> "Distracted"
      [] ~(b < 80 /\ c < 30) /\ ~(w * 10 < 6 * h \/ w * 10 > 14 * h)
           /\ b > 100 /\ c > 40 /\ 7 * h < w * 10 /\ w * 10 < 13 * h
            -> "Attentive"
      [] OTHER -> "Neutral"

\* C13: classify_behavior returns Neutral on an empty region and otherwise
\* the value of the four-rule priority function: Sleepy if brightness < 80
\* and contrast < 30 whatever the aspect ratio, else Distracted if the ratio
\* is < 0.6 or > 1.4 whatever brightness and contrast, else Attentive if
\* brightness > 100, contrast > 40 and 0.7 < ratio < 1.3, else Neutral;
\* (50, 10, ratio 1.0) gives Sleepy and (110, 50, ratio 2.0) Distracted.
C13_FourRules ==
    /\ (pc = "returned" /\ ~face_region.isNone /\ ~face_region.raises
          /\ face_region.w * face_region.h = 0) => behavior = "Neutral"
    /\ Classified =>
         /\ behavior = FourRule(face_region.brightness, face_region.contrast,
                                face_region.w, face_region.h)
         /\ (face_region.brightness < 80 /\ face_region.contrast < 30)
               => behavior = "Sleepy"
         /\ face_region = Region(50, 10, 10, 10) => behavior = "Sleepy"
         /\ face_region = Region(110, 50, 20, 10) => behavior = "Distracted"

\* A dark, flat region twice as wide as high has been classified Sleepy:
\* the Sleepy rule came before the aspect-ratio rule.
C13_Witness ==
    /\ Classified
    /\ face_region = Region(50, 10, 20, 10)
    /\ behavior = "Sleepy"

\* C14: classify_behavior always returns, and returns one of the four
\* labels: no exception leaves it; on None, on a region of zero area and on
\* a region on which a computation of the try block raises it returns
\* Neutral.
C14_Total ==
    /\ pc # "raised"
    /\ behavior # "raise"
    /\ pc = "classify_call" => ENABLED cb_classify
    /\ pc = "returned" =>
         /\ behavior \in Labels
         /\ face_region.isNone => behavior = "Neutral"
         /\ (~face_region.isNone /\ face_region.w * face_region.h = 0)
               => behavior = "Neutral"
         /\ (~face_region.isNone /\ face_region.raises)
               => behavior = "Neutral"

\* classify_behavior has returned Neutral on a region that the rules would
\* call Sleepy and on which a computation raised.
C14_Witness ==
    /\ pc = "returned"
    /\ face_region = Raising(Region(50, 10, 10, 10))
    /\ behavior = "Neutral"

\* The summary of simulate_processing came back.
SimulatedRun ==
    /\ Get(result, "success") = TRUE
    /\ Get(result, "simulated") = TRUE

\* C15: when cv2 is not installed, a run of process_video_async is served by
\* simulate_processing: the missing dependency stops nothing (no ImportError
\* ends the run), no failure summary comes back, and the run ends with the
\* simulated summary (success = True, simulated = True) and the video
\* completed; and a summary of process_video never carries simulated.
C15_Fallback ==
    /\ (entry = "async" /\ ~cv2_installed) =>
         /\ pc # "ImportError"
         /\ result = NoResult \/ Get(result, "success") = TRUE
         /\ apc = "done" =>
              (SimulatedRun /\ video.processing_status = "completed")
    /\ Completed => "simulated" \notin DOMAIN result

\* What happens without cv2: the import of ai_engine.py raises ImportError
\* before any entry point exists; nothing runs, no row is written and the
\* video stays pending.  With cv2 process_video serves the run and its
\* summary carries no simulated key.
C15_Observed ==
    /\ ~cv2_installed =>
         /\ pc \in {"import", "ImportError"}
         /\ video = NewVideoUpload
         /\ result = NoResult
         /\ ~sim_last.saved
         /\ records = << >>
    /\ (entry = "async" /\ apc = "done") => ~SimulatedRun
    /\ Completed => "simulated" \notin DOMAIN result

\* C16: a call of simulate_processing draws a number of rows between 10 and
\* 30, has saved one row per finished iteration and counted it, and returns
\* records_created = that number; every row it saves has total_students
\* between 5 and 20 and four non-negative counts that add up to
\* total_students.
C16_Simulated ==
    entry = "simulate" =>
      /\ pc \in {"sim_loop", "returned", "raised"} =>
           /\ sim.num_records \in 10..30
           /\ records_created = sim.i
           /\ sim.i <= sim.num_records
           /\ sim_last.saved <=> sim.i > 0
      /\ pc = "returned" =>
           /\ result = SimulatedSummary(sim.num_records)
           /\ result.records_created = records_created
           /\ result.records_created \in 10..30
      /\ sim_last.saved =>
           /\ sim_last.total_students \in 5..20
           /\ Conserved(sim_last)
           /\ sim_last.frame_number = (sim.i - 1) * 30
      \* at the call: the row of every draw random.randint can make
      /\ pc = "sim_call" =>
           \A total \in randint(5, 20) :
           \A attentive \in randint(2, total) :
           \A sleepy \in randint(0, total - attentive) :
           \A distracted \in randint(0, total - attentive - sleepy) :
             LET row == SimulatedRecord(total, attentive, sleepy,
                                        distracted, 0)
             IN  /\ row.total_students \in 5..20
                 /\ Conserved(row)

\* simulate_processing has returned after 30 rows, the last one with
\* students in every bucket.
C16_Witness ==
    /\ entry = "simulate"
    /\ pc = "returned"
    /\ result.records_created = 30
    /\ sim_last.total_students = 20
    /\ sim_last.sleepy_count > 0
    /\ sim_last.distracted_count > 0
    /\ sim_last.neutral_count > 0

\* The analyzer of the run has no face detector (face_cascade is None).
NoDetector == analyzer.created /\ analyzer.face_cascade = "None"

RecordedStudents ==
    SumFirst([k \in 1..Len(records) |-> records[k].total_students],
             Len(records))

\* C18: the success summary of process_video has total_frames = the number
\* of frames read, total_faces_detected = the faces detected over all
\* frames = final_stats.total_students, records_created = the number of
\* records stored, and final_stats = the cumulative snapshot after the last
\* frame.  The faces detected over all frames are accounted for twice:
\* while the loop runs they are what the stored records and the open
\* interval hold together, and on the two sources whose frames are known they
\* are 2 * 90 and 2 * 30.
C18_Summary ==
    /\ (pc = "loop" /\ analyzer.created) =>
         /\ analyzer.frame_count = pos
         /\ analyzer.total_faces_detected
               = RecordedStudents + get_current_stats(analyzer).total_students
         /\ analyzer.total_faces_detected
               = get_cumulative_stats(analyzer).total_students
    /\ Completed =>
         /\ result.total_frames = pos
         /\ result.total_frames = source.nframes
         /\ result.total_faces_detected = analyzer.total_faces_detected
         /\ result.total_faces_detected = result.final_stats.total_students
         /\ result.total_faces_detected = RecordedStudents
         /\ result.final_stats = get_cumulative_stats(analyzer)
         /\ Conserved(result.final_stats)
         /\ result.records_created = Len(records)
         /\ (DetectorLoaded /\ source = Scenario1Source)
               => result.total_faces_detected = 180
         /\ (DetectorLoaded /\ source = Scenario2Source)
               => result.total_faces_detected = 60

\* The run over the 90 frames with two faces each has completed with
\* save_interval 30: 90 frames, 180 faces, 3 records.
C18_Witness ==
    /\ Completed
    /\ DetectorLoaded
    /\ source = Scenario1Source
    /\ save_interval = 30
    /\ result.total_frames = 90
    /\ result.total_faces_detected = 180
    /\ result.final_stats.attentive_count = 180
    /\ result.records_created = 3

\* How many regions of a sequence classify_behavior gives the label.
Labelled(faces, label) ==
    Cardinality({i \in 1..Len(faces) : classify_behavior(faces[i]) = label})

\* The step is a call of process_frame.
ProcessFrameStep == pos' = pos + 1 /\ pc' = "process_frame"

\* C19: a call of process_frame on a frame in which a faces are found
\* Attentive, s Sleepy, d Distracted and n Neutral returns these four
\* counts and the number of faces, a + s + d + n; it adds a, s, d and n to
\* the matching interval counter and to the matching cumulative counter and
\* changes nothing else of the analyzer.  On the frame None it returns
\* (0, {}) and changes nothing.
C19_RecordFrame ==
    [][ProcessFrameStep =>
         IF frame'.isNone
         THEN /\ analyzer' = analyzer
              /\ frame_result'.faces_detected = 0
              /\ DOMAIN frame_result'.counts = {}
         ELSE LET found == IF analyzer.face_cascade = "None" THEN << >>
                           ELSE frame'.faces
                  a == Labelled(found, "Attentive")
                  s == Labelled(found, "Sleepy")
                  d == Labelled(found, "Distracted")
                  n == Labelled(found, "Neutral")
                  cum == analyzer.cumulative_stats
              IN  /\ frame_result'.counts =
                        [attentive |-> a, sleepy |-> s, distracted |-> d,
                         neutral |-> n]
                  /\ frame_result'.faces_detected = Len(found)
                  /\ a + s + d + n = Len(found)
                  /\ analyzer'.attentive_count = analyzer.attentive_count + a
                  /\ analyzer'.sleepy_count = analyzer.sleepy_count + s
                  /\ analyzer'.distracted_count
                        = analyzer.distracted_count + d
                  /\ analyzer'.neutral_count = analyzer.neutral_count + n
                  /\ analyzer'.cumulative_stats =
                        [attentive |-> cum.attentive + a,
                         sleepy |-> cum.sleepy + s,
                         distracted |-> cum.distracted + d,
                         neutral |-> cum.neutral + n]
                  /\ analyzer' =
                        [analyzer EXCEPT
                           !.attentive_count = analyzer'.attentive_count,
                           !.sleepy_count = analyzer'.sleepy_count,
                           !.distracted_count = analyzer'.distracted_count,
                           !.neutral_count = analyzer'.neutral_count,
                           !.cumulative_stats = analyzer'.cumulative_stats]
      ]_vars

\* After a frame with an Attentive face, a reset and a frame with a
\* Distracted face: the interval holds the second frame, the cumulative
\* tally both.
C19_Witness ==
    /\ entry = "EngagementAnalyzer"
    /\ pc = "process_frame"
    /\ frame = Frame(<< DistractedRegion >>)
    /\ frame_result.faces_detected = 1
    /\ get_current_stats(analyzer).total_students = 1
    /\ analyzer.distracted_count = 1
    /\ analyzer.cumulative_stats.attentive = 1
    /\ analyzer.cumulative_stats.distracted = 1

\* The step saves an interval record inside the frame loop: the loop body
\* has called reset_interval_stats after the save.
IntervalFlushStep == pc = "loop" /\ Len(records') = Len(records) + 1

\* C20: reset_interval_stats zeroes the four interval counts and nothing
\* else.  In a run: after the step that saves an interval record the
\* interval counts are zero, while the cumulative tally holds what it held
\* before plus the faces of the frame just processed (what the record
\* carries beyond the interval counts of before), and so does
\* total_faces_detected; the frame counter is the one the record is stamped
\* with; and over every step of a run no cumulative count, nor the frame
\* counter, nor total_faces_detected decreases.
C20_ResetInterval ==
    /\ [][IntervalFlushStep =>
            LET rec == records'[Len(records')]
                cum == analyzer.cumulative_stats
            IN  /\ analyzer'.attentive_count = 0
                /\ analyzer'.sleepy_count = 0
                /\ analyzer'.distracted_count = 0
                /\ analyzer'.neutral_count = 0
                /\ analyzer'.cumulative_stats =
                      [attentive |-> cum.attentive
                          + (rec.attentive_count - analyzer.attentive_count),
                       sleepy |-> cum.sleepy
                          + (rec.sleepy_count - analyzer.sleepy_count),
                       distracted |-> cum.distracted
                          + (rec.distracted_count - analyzer.distracted_count),
                       neutral |-> cum.neutral
                          + (rec.neutral_count - analyzer.neutral_count)]
                /\ analyzer'.total_faces_detected =
                      analyzer.total_faces_detected + rec.total_students
                        - get_current_stats(analyzer).total_students
                /\ analyzer'.frame_count = analyzer.frame_count + 1
                /\ analyzer'.frame_count = rec.frame_number
                /\ analyzer'.save_interval = analyzer.save_interval
                /\ analyzer'.face_cascade = analyzer.face_cascade]_vars
    /\ [][analyzer.created =>
            /\ analyzer'.created
            /\ analyzer'.cumulative_stats.attentive
                  >= analyzer.cumulative_stats.attentive
            /\ analyzer'.cumulative_stats.sleepy
                  >= analyzer.cumulative_stats.sleepy
            /\ analyzer'.cumulative_stats.distracted
                  >= analyzer.cumulative_stats.distracted
            /\ analyzer'.cumulative_stats.neutral
                  >= analyzer.cumulative_stats.neutral
            /\ analyzer'.frame_count >= analyzer.frame_count
            /\ analyzer'.total_faces_detected
                  >= analyzer.total_faces_detected]_vars

\* The loop runs on after two interval records: the interval is empty and
\* the cumulative tally holds the faces of both.
C20_Witness ==
    /\ pc = "loop"
    /\ Len(records) = 2
    /\ records[1].total_students = 1
    /\ records[2].total_students = 1
    /\ get_current_stats(analyzer).total_students = 0
    /\ get_cumulative_stats(analyzer).total_students = 2
    /\ analyzer.total_faces_detected = 2
    /\ analyzer.frame_count = 2

\* A record was stored and no frame has been counted since.
LastRecordStands ==
    /\ analyzer.created
    /\ records # << >>
    /\ analyzer.frame_count = records[Len(records)].frame_number

\* The four interval counts are zero.
TallyIsZero ==
    /\ analyzer.attentive_count = 0
    /\ analyzer.sleepy_count = 0
    /\ analyzer.distracted_count = 0
    /\ analyzer.neutral_count = 0

\* C21: after each record a run stores, by an interval flush or by the final
\* partial-interval flush, the four interval counts are zero when the run
\* goes on or returns.
C21_TallyReset ==
    LastRecordStands => TallyIsZero

\* What process_video does: the interval counts are zero after a record of
\* an interval flush; after the record of the final flush they still hold
\* what that record carries.
C21_Observed ==
    LastRecordStands =>
      LET last == records[Len(records)]
      IN  IF last.frame_number % save_interval = 0
          THEN TallyIsZero
          ELSE /\ Completed \/ pc = "raised"
               /\ last.total_students > 0
               /\ get_current_stats(analyzer).total_students
                     = last.total_students
               /\ analyzer.attentive_count = last.attentive_count
               /\ analyzer.sleepy_count = last.sleepy_count
               /\ analyzer.distracted_count = last.distracted_count
               /\ analyzer.neutral_count = last.neutral_count

\* The step is (or repeats the state after) a call of the snapshot method.
CurrentStatsStep == pc' = "get_current_stats"
CumulativeStatsStep == pc' = "get_cumulative_stats"

\* C22: get_current_stats and get_cumulative_stats are read-only and
\* idempotent: a call leaves the analyzer (interval tally, cumulative tally
\* and all else) as it was, returns the snapshot of the counters as they
\* are, and returns the same dict as the previous call of the same method
\* when no process_frame and no reset_interval_stats came between, whatever
\* other snapshot calls did.
C22_Snapshots ==
    /\ [][CurrentStatsStep =>
            /\ analyzer' = analyzer
            /\ snapshot'.cumulative = snapshot.cumulative
            /\ snapshot'.current.taken
            /\ snapshot'.current.stats.attentive_count
                  = analyzer.attentive_count
            /\ snapshot'.current.stats.total_students
                  = analyzer.attentive_count + analyzer.sleepy_count
                      + analyzer.distracted_count + analyzer.neutral_count
            /\ snapshot.current.taken =>
                  snapshot'.current = snapshot.current]_vars
    /\ [][CumulativeStatsStep =>
            /\ analyzer' = analyzer
            /\ snapshot'.current = snapshot.current
            /\ snapshot'.cumulative.taken
            /\ snapshot'.cumulative.stats.attentive_count
                  = analyzer.cumulative_stats.attentive
            /\ snapshot.cumulative.taken =>
                  snapshot'.cumulative = snapshot.cumulative]_vars

\* Both snapshots have been taken of an analyzer whose interval tally (one
\* face) differs from its cumulative tally (two faces).
C22_Witness ==
    /\ entry = "EngagementAnalyzer"
    /\ pc = "get_current_stats"
    /\ snapshot.current.taken
    /\ snapshot.cumulative.taken
    /\ snapshot.current.stats.total_students = 1
    /\ snapshot.cumulative.stats.total_students = 2
    /\ analyzer.cumulative_stats.attentive = 1

\* What the stored records carry together, label by label.
RecordedCounts ==
    LET n == Len(records)
    IN  [ attentive  |-> SumFirst([k \in 1..n |-> records[k].attentive_count], n),
          sleepy     |-> SumFirst([k \in 1..n |-> records[k].sleepy_count], n),
          distracted |-> SumFirst([k \in 1..n |-> records[k].distracted_count], n),
          neutral    |-> SumFirst([k \in 1..n |-> records[k].neutral_count], n) ]

\* C23: no detection is lost or counted twice across flushes.  While the
\* frame loop runs, between frames, each cumulative count is what the
\* records stored so far carry for the label plus the interval count; when
\* process_video has completed, for each label the records together carry
\* the cumulative count of final_stats, and their total_students add up to
\* total_faces_detected.
C23_NothingLost ==
    /\ (pc \in {"loop", "flush"} /\ analyzer.created) =>
         analyzer.cumulative_stats =
           [ attentive  |-> RecordedCounts.attentive
                              + analyzer.attentive_count,
             sleepy     |-> RecordedCounts.sleepy + analyzer.sleepy_count,
             distracted |-> RecordedCounts.distracted
                              + analyzer.distracted_count,
             neutral    |-> RecordedCounts.neutral + analyzer.neutral_count ]
    /\ Completed =>
         /\ RecordedCounts.attentive = result.final_stats.attentive_count
         /\ RecordedCounts.sleepy = result.final_stats.sleepy_count
         /\ RecordedCounts.distracted = result.final_stats.distracted_count
         /\ RecordedCounts.neutral = result.final_stats.neutral_count
         /\ RecordedStudents = result.total_faces_detected

\* A completed run of 3 frames, save_interval 2: the record of frame 2
\* carries two faces, the final record the third, final_stats all three.
C23_Witness ==
    /\ Completed
    /\ source.nframes = 3
    /\ save_interval = 2
    /\ Len(records) = 2
    /\ records[1].total_students = 2
    /\ records[2].total_students = 1
    /\ result.final_stats.total_students = 3
    /\ result.total_faces_detected = 3

\* process_video has opened its source.
SourceOpened ==
    /\ entry \in {"process_video", "async"}
    /\ cap \in {"open", "released"}

\* C24: once the source is opened no exception leaves process_video: an
\* error at any later step, the save of the final partial-interval record
\* included, ends the call with a returned summary that has success = False
\* and records_created = the number of records stored.
C24_NoEscape ==
    SourceOpened =>
      /\ pc # "raised"
      /\ (pc = "returned" /\ Get(result, "success") = FALSE) =>
           result.records_created = Len(records)

\* What process_video does: an error inside the frame loop gives the failure
\* summary with the number of records stored; an error of the save of the
\* final record, after the loop, leaves process_video as an exception: no
\* summary is returned, the interval records stay stored, the capture is
\* released, and process_video_async marks the video failed.
C24_Observed ==
    SourceOpened =>
      /\ (pc = "returned" /\ Get(result, "success") = FALSE) =>
           result.records_created = Len(records)
      /\ pc = "raised" =>
           /\ result = NoResult
           /\ pos = source.nframes
           /\ cap = "released"
           /\ NeedsFinalFlush(analyzer, save_interval)
           /\ Len(records) = source.nframes \div save_interval
           /\ records_created = Len(records)
           /\ apc = "done" => video.processing_status = "failed"

\* The aspect ratio w / h of the region lies in [lo/10, hi/10].
RatioWithin(region, lo, hi) ==
    /\ lo * region.h <= 10 * region.w
    /\ 10 * region.w <= hi * region.h

\* C25: classify_behavior returns Attentive exactly on the regions of
\* non-zero area with brightness > 100, contrast > 40 and 0.7 < w/h < 1.3
\* (neither the Sleepy rule nor the aspect-ratio rule takes such a region
\* away); a region whose ratio lies in [0.6, 0.7] or in [1.3, 1.4] is
\* neither Attentive nor Distracted: it is Sleepy or Neutral.
C25_Attentive ==
    (pc = "returned" /\ ~face_region.isNone /\ ~face_region.raises) =>
      /\ behavior = "Attentive" <=>
           /\ face_region.w * face_region.h # 0
           /\ face_region.brightness > 100
           /\ face_region.contrast > 40
           /\ 7 * face_region.h < 10 * face_region.w
           /\ 10 * face_region.w < 13 * face_region.h
      /\ (/\ face_region.w * face_region.h # 0
          /\ RatioWithin(face_region, 6, 7) \/ RatioWithin(face_region, 13, 14))
           => behavior \in {"Sleepy", "Neutral"}

\* A bright region of good contrast whose ratio is 0.7 exactly has been
\* classified Neutral.
C25_Witness ==
    /\ pc = "returned"
    /\ face_region = Region(110, 50, 7, 10)
    /\ behavior = "Neutral"


\* processed is true exactly if processing_status is completed.
ProcessedIffCompleted(processed, status) ==
    /\ processed \in BOOLEAN
    /\ processed <=> status = "completed"

\* C26: in every state the stored VideoUpload has processed = True exactly
\* if its processing_status is completed, and so has every response of the
\* status endpoint, at whatever moment of a run of process_video_async the
\* request is served: pending, processing and failed go with processed =
\* False.
C26_ProcessedIffCompleted ==
    /\ ProcessedIffCompleted(video.processed, video.processing_status)
    /\ status_seen.answered =>
         /\ ProcessedIffCompleted(status_seen.processed, status_seen.status)
         /\ status_seen.status
               \in {"pending", "processing", "completed", "failed"}

\* The run has ended completed, and the status endpoint answered last while
\* it was still processing.
C26_Witness ==
    /\ entry = "async"
    /\ apc = "done"
    /\ video.processing_status = "completed"
    /\ video.processed
    /\ status_seen.answered
    /\ status_seen.status = "processing"
    /\ ~status_seen.processed

\* The status endpoint answered after the run ended completed.
C26_WitnessCompleted ==
    /\ status_seen.answered
    /\ status_seen.status = "completed"
    /\ status_seen.processed
    /\ status_seen.total_frames = 3

=============================================================================
